---- MODULE Spec2Model ----
(***************************************************************************)
(* RS-485 direction control of jrserial's native layer.                    *)
(*                                                                         *)
(* The model follows src/native/src/platform_linux.rs (PortWrapper with    *)
(* kernel RS-485 support), src/native/src/platform_other.rs (PortWrapper   *)
(* with manual control only) and the parts of src/native/src/lib.rs that   *)
(* call them.  One PortWrapper is modelled; the platform variant is fixed  *)
(* at build time (cfg(target_os)) and is therefore chosen in Init.         *)
(* Every transport call (pin, write, flush) and every ioctl may succeed or *)
(* fail; the outcome is drawn by the action that models the operation.     *)
(* The exported functions of lib.rs and the thread-local error context     *)
(* store are modelled on top of it, with two calling threads.              *)
(***************************************************************************)
EXTENDS Integers, Sequences, FiniteSets, TLC

VARIABLES
    platform,         \* "linux" | "other": which PortWrapper variant was built
    wrapper,          \* the PortWrapper's fields (a record, per platform)
    kernel,           \* enabled bit of the serial driver's current RS-485 descriptor
    op,               \* the last operation called, with its arguments
    calls,            \* transport and ioctl calls made by the last operation
    result,           \* what the last operation returned
    overflow_checks,  \* build profile: TRUE = arithmetic overflow panics
    timeout_ms,       \* the jint timeout handed to open / setTimeout
    normalized,       \* what normalize_timeout_ms made of it
    last_error,       \* LAST_ERROR: for each thread, its Option<ErrorContext>
    jni,              \* the last call of an exported function, and what it returned
    handle            \* the jlong Java holds: 1 = the boxed PortWrapper, 0 = none

vars == <<platform, wrapper, kernel, op, calls, result,
          overflow_checks, timeout_ms, normalized, last_error, jni, handle>>

ctrlVars == <<platform, wrapper, kernel, op, calls, result>>
timeoutVars == <<overflow_checks, timeout_ms, normalized>>
errVars == <<last_error, jni, handle>>

----------------------------------------------------------------------------
(* Bounds of the model *)

\* delays (microseconds) offered to the operations: 0, 750, ..., MaxDelaySteps * 750,
\* so that values below and above one millisecond occur
MaxDelaySteps == 2
\* longest data slice handed to write
MaxDataLen == 2

Delays == { i * 750 : i \in 0..MaxDelaySteps }
DataLens == 0..MaxDataLen

----------------------------------------------------------------------------
(* Types of lib.rs *)

Platforms == {"linux", "other"}
Rs485ControlMode == {"None", "Auto", "Manual"}
Rs485ControlPin == {"RTS", "DTR"}

----------------------------------------------------------------------------
(* Kernel RS-485 descriptor (platform_linux.rs) *)

SER_RS485_ENABLED == 1
SER_RS485_RTS_ON_SEND == 2
SER_RS485_RTS_AFTER_SEND == 4
SER_RS485_RX_DURING_TX == 16
SER_RS485_TERMINATE_BUS == 32

\* flags & bit != 0, for a single-bit mask
HasFlag(flags, bit) == (flags \div bit) % 2 = 1

\* SerialRs485::default(): every field zero
SerialRs485Default ==
    [flags |-> 0, delay_rts_before_send |-> 0, delay_rts_after_send |-> 0]

----------------------------------------------------------------------------
(* Records of the trace kept for the last operation *)

PinFn(pin) ==
    IF pin = "RTS" THEN "write_request_to_send" ELSE "write_data_terminal_ready"

PinCall(pin, level, ok) ==
    [fn |-> PinFn(pin), level |-> level, n |-> 0,
     desc |-> SerialRs485Default, ok |-> ok]
WriteCall(len, ok) ==
    [fn |-> "write", level |-> FALSE, n |-> len,
     desc |-> SerialRs485Default, ok |-> ok]
FlushCall(ok) ==
    [fn |-> "flush", level |-> FALSE, n |-> 0,
     desc |-> SerialRs485Default, ok |-> ok]
IoctlCall(request, desc, ok) ==
    [fn |-> request, level |-> FALSE, n |-> 0, desc |-> desc, ok |-> ok]

Ok(n) == [ok |-> TRUE, n |-> n, err |-> ""]
Err(from) == [ok |-> FALSE, n |-> 0, err |-> from]

NoArgs ==
    [mode |-> "None", pin |-> "RTS", rts_active_high |-> TRUE,
     rx_during_tx |-> FALSE, termination_enabled |-> FALSE,
     delay_before |-> 0, delay_after |-> 0, len |-> 0]
OpRec(name, args) ==
    [name |-> name, mode |-> args.mode, pin |-> args.pin,
     rts_active_high |-> args.rts_active_high,
     rx_during_tx |-> args.rx_during_tx,
     termination_enabled |-> args.termination_enabled,
     delay_before |-> args.delay_before, delay_after |-> args.delay_after,
     len |-> args.len]

----------------------------------------------------------------------------
(* Outcomes the environment may give *)

\* ioctl(TIOCSRS485): "fail" returns -1 and changes nothing; "ok" installs the
\* descriptor; "refused" returns 0 but the driver keeps RS-485 off.
IoctlSetOutcomes == {"fail", "ok", "refused"}

\* outcomes of the ioctls one operation issues: disable (only drawn when a
\* disable call is made), then set and get of the enable attempt (only drawn
\* when an attempt is made; get only when set returned 0)
KernelOutcomes(disables, attempts) ==
    { e \in [disable : {"fail", "ok"}, set : IoctlSetOutcomes, get : BOOLEAN] :
        /\ (~disables => e.disable = "ok")
        /\ (~attempts => e.set = "fail")
        /\ (e.set = "fail" => e.get = FALSE) }

\* outcomes of the transport calls of one write; n is the count the raw write
\* returns when it succeeds
WriteOutcomes(len) ==
    [assert_ok : BOOLEAN, write_ok : BOOLEAN, n : 0..len,
     flush_ok : BOOLEAN, deassert_ok : BOOLEAN]

----------------------------------------------------------------------------
(* PortWrapper::new *)

new_linux ==
    [control_mode |-> "None", control_pin |-> "RTS",
     kernel_rs485_active |-> FALSE, rts_active_high |-> TRUE,
     rx_during_tx |-> FALSE, termination_enabled |-> FALSE,
     delay_before_send_micros |-> 0, delay_after_send_micros |-> 0]

new_other ==
    [control_mode |-> "None", control_pin |-> "RTS", rts_active_high |-> TRUE]

\* isKernelRs485Active with a valid handle
is_kernel_rs485_active(plat, w) ==
    IF plat = "linux" THEN w.kernel_rs485_active ELSE FALSE

----------------------------------------------------------------------------
(* Kernel capability adapter (platform_linux.rs) *)

\* the driver's enabled bit after ioctl(TIOCSRS485, config).  Of the
\* descriptor the driver holds, the program only ever reads the enabled bit
\* (verify.flags & SER_RS485_ENABLED), so only that bit is tracked.
ioctl_set(k, config, outcome) ==
    CASE outcome = "fail" -> k
      [] outcome = "ok" -> HasFlag(config.flags, SER_RS485_ENABLED)
      [] outcome = "refused" -> FALSE

\* the descriptor ioctl(TIOCGRS485) fills in: the driver's enabled bit when
\* it succeeds, the zeroed `verify` otherwise
ioctl_get(k, ok) ==
    IF ok /\ k
    THEN [SerialRs485Default EXCEPT !.flags = SER_RS485_ENABLED]
    ELSE SerialRs485Default

enable_flags_rts_on_send_always(w) ==
    SER_RS485_ENABLED
    + SER_RS485_RTS_ON_SEND
    + (IF w.rts_active_high THEN 0 ELSE SER_RS485_RTS_AFTER_SEND)
    + (IF w.rx_during_tx THEN SER_RS485_RX_DURING_TX ELSE 0)
    + (IF w.termination_enabled THEN SER_RS485_TERMINATE_BUS ELSE 0)

\* `flags`: the bits are distinct, so `|=` adds
enable_flags(w) ==
    SER_RS485_ENABLED
    + (IF w.rts_active_high THEN SER_RS485_RTS_ON_SEND
                            ELSE SER_RS485_RTS_AFTER_SEND)
    + (IF w.rx_during_tx THEN SER_RS485_RX_DURING_TX ELSE 0)
    + (IF w.termination_enabled THEN SER_RS485_TERMINATE_BUS ELSE 0)

enable_config_rounds_up(w) ==
    [flags |-> enable_flags(w),
     delay_rts_before_send |-> (w.delay_before_send_micros + 999) \div 1000,
     delay_rts_after_send |-> (w.delay_after_send_micros + 999) \div 1000]

\* `config`: the flags and the delays converted from microseconds to
\* milliseconds by integer division
enable_config(w) ==
    [flags |-> enable_flags(w),
     delay_rts_before_send |-> w.delay_before_send_micros \div 1000,
     delay_rts_after_send |-> w.delay_after_send_micros \div 1000]

try_enable_kernel_rs485_always_reads_back(w, k, set, get) ==
    LET config == enable_config(w)
        k1 == ioctl_set(k, config, set)
        setCall == IoctlCall("TIOCSRS485", config, set # "fail")
        verify == ioctl_get(k1, get)
        getCall == IoctlCall("TIOCGRS485", verify, get)
    IN  [ret |-> get /\ HasFlag(verify.flags, SER_RS485_ENABLED),
         kernel |-> k1, calls |-> <<setCall, getCall>>]

try_enable_kernel_rs485_unverified(w, k, set, get) ==
    LET config == enable_config(w)
        k1 == ioctl_set(k, config, set)
        setCall == IoctlCall("TIOCSRS485", config, set # "fail")
        getCall == IoctlCall("TIOCGRS485", ioctl_get(k1, get), get)
    IN  IF set # "fail"
        THEN [ret |-> TRUE, kernel |-> k1, calls |-> <<setCall, getCall>>]
        ELSE [ret |-> FALSE, kernel |-> k1, calls |-> <<setCall>>]

try_enable_kernel_rs485(w, k, set, get) ==
    LET config == enable_config(w)
        k1 == ioctl_set(k, config, set)
        setCall == IoctlCall("TIOCSRS485", config, set # "fail")
        verify == ioctl_get(k1, get)
        getCall == IoctlCall("TIOCGRS485", verify, get)
    IN  IF set # "fail"
        THEN [ret |-> get /\ HasFlag(verify.flags, SER_RS485_ENABLED),
              kernel |-> k1, calls |-> <<setCall, getCall>>]
        ELSE [ret |-> FALSE, kernel |-> k1, calls |-> <<setCall>>]

disable_kernel_rs485(k, set) ==
    [ret |-> set # "fail",
     kernel |-> ioctl_set(k, SerialRs485Default, set),
     calls |-> <<IoctlCall("TIOCSRS485", SerialRs485Default, set # "fail")>>]

----------------------------------------------------------------------------
(* Mode adoption *)

kernel_attempted_any_pin(mode, pin) == mode = "Auto"

kernel_attempted_manual_too(mode, pin) == mode # "None" /\ pin = "RTS"

\* the match on mode: only Auto with RTS tries the kernel
kernel_attempted(mode, pin) == mode = "Auto" /\ pin = "RTS"

configure_rs485_linux_resets_delays(w, k, mode, pin, e) ==
    LET d == IF w.kernel_rs485_active
             THEN disable_kernel_rs485(k, e.disable)
             ELSE [ret |-> TRUE, kernel |-> k, calls |-> <<>>]
        w1 == [w EXCEPT !.kernel_rs485_active = FALSE,
                        !.control_mode = mode,
                        !.control_pin = pin,
                        !.delay_before_send_micros = 0,
                        !.delay_after_send_micros = 0]
    IN  IF kernel_attempted(mode, pin)
        THEN LET t == try_enable_kernel_rs485(w1, d.kernel, e.set, e.get)
             IN  [wrapper |-> [w1 EXCEPT !.kernel_rs485_active = t.ret],
                  kernel |-> t.kernel,
                  calls |-> d.calls \o t.calls,
                  result |-> Ok(0)]
        ELSE [wrapper |-> w1, kernel |-> d.kernel, calls |-> d.calls,
              result |-> Ok(0)]

configure_rs485_linux_keeps_flag_on_failed_disable(w, k, mode, pin, e) ==
    LET d == IF w.kernel_rs485_active
             THEN disable_kernel_rs485(k, e.disable)
             ELSE [ret |-> TRUE, kernel |-> k, calls |-> <<>>]
        w1 == [w EXCEPT !.kernel_rs485_active = ~d.ret,
                        !.control_mode = mode,
                        !.control_pin = pin]
    IN  IF kernel_attempted(mode, pin)
        THEN LET t == try_enable_kernel_rs485(w1, d.kernel, e.set, e.get)
             IN  [wrapper |-> [w1 EXCEPT !.kernel_rs485_active = t.ret],
                  kernel |-> t.kernel,
                  calls |-> d.calls \o t.calls,
                  result |-> Ok(0)]
        ELSE [wrapper |-> w1, kernel |-> d.kernel, calls |-> d.calls,
              result |-> Ok(0)]

\* if delegation is active: disable it (result ignored) and clear the flag;
\* then record mode and pin; then the match on mode
configure_rs485_linux(w, k, mode, pin, e) ==
    LET d == IF w.kernel_rs485_active
             THEN disable_kernel_rs485(k, e.disable)
             ELSE [ret |-> TRUE, kernel |-> k, calls |-> <<>>]
        w1 == [w EXCEPT !.kernel_rs485_active = FALSE,
                        !.control_mode = mode,
                        !.control_pin = pin]
    IN  IF kernel_attempted(mode, pin)
        THEN LET t == try_enable_kernel_rs485(w1, d.kernel, e.set, e.get)
             IN  [wrapper |-> [w1 EXCEPT !.kernel_rs485_active = t.ret],
                  kernel |-> t.kernel,
                  calls |-> d.calls \o t.calls,
                  result |-> Ok(0)]
        ELSE [wrapper |-> w1, kernel |-> d.kernel, calls |-> d.calls,
              result |-> Ok(0)]

configure_rs485_other(w, k, mode, pin) ==
    [wrapper |-> [w EXCEPT !.control_mode = mode, !.control_pin = pin],
     kernel |-> k, calls |-> <<>>, result |-> Ok(0)]

store_extended_linux_drops_delay_after(w, a) ==
    [w EXCEPT !.rts_active_high = a.rts_active_high,
              !.rx_during_tx = a.rx_during_tx,
              !.termination_enabled = a.termination_enabled,
              !.delay_before_send_micros = a.delay_before]

\* "Store extended configuration"
store_extended_linux(w, a) ==
    [w EXCEPT !.rts_active_high = a.rts_active_high,
              !.rx_during_tx = a.rx_during_tx,
              !.termination_enabled = a.termination_enabled,
              !.delay_before_send_micros = a.delay_before,
              !.delay_after_send_micros = a.delay_after]

configure_rs485_extended_linux_stores_after(w, k, a, e) ==
    LET r == configure_rs485_linux(w, k, a.mode, a.pin, e)
    IN  [r EXCEPT !.wrapper = store_extended_linux(r.wrapper, a)]

\* store the five attributes, then configure_rs485
configure_rs485_extended_linux(w, k, a, e) ==
    configure_rs485_linux(store_extended_linux(w, a), k, a.mode, a.pin, e)

configure_rs485_extended_other(w, k, a) ==
    configure_rs485_other([w EXCEPT !.rts_active_high = a.rts_active_high],
                          k, a.mode, a.pin)

set_rs485_delays_reruns_adoption(w, k, before, after, e) ==
    LET w1 == [w EXCEPT !.delay_before_send_micros = before,
                        !.delay_after_send_micros = after]
    IN  IF kernel_attempted(w1.control_mode, w1.control_pin)
        THEN LET t == try_enable_kernel_rs485(w1, k, e.set, e.get)
             IN  [wrapper |-> w1, kernel |-> t.kernel, calls |-> t.calls]
        ELSE [wrapper |-> w1, kernel |-> k, calls |-> <<>>]

\* store the delays; "if kernel mode is already active, reconfigure"
set_rs485_delays(w, k, before, after, e) ==
    LET w1 == [w EXCEPT !.delay_before_send_micros = before,
                        !.delay_after_send_micros = after]
    IN  IF w1.kernel_rs485_active
        THEN LET t == try_enable_kernel_rs485(w1, k, e.set, e.get)
             IN  [wrapper |-> w1, kernel |-> t.kernel, calls |-> t.calls]
        ELSE [wrapper |-> w1, kernel |-> k, calls |-> <<>>]

----------------------------------------------------------------------------
(* Write path *)

WriteResult(o) == IF o.write_ok THEN Ok(o.n) ELSE Err("write")

write_path_linux_none_toggles(w) ==
    IF w.control_mode = "Auto" /\ w.kernel_rs485_active THEN "kernel"
    ELSE "manual"

\* the arms of the match on control_mode
write_path_linux(w) ==
    CASE w.control_mode = "None" -> "raw"
      [] w.control_mode = "Auto" /\ w.kernel_rs485_active -> "kernel"
      [] OTHER -> "manual"

\* "Enable transmit": the first match on control_pin
enable_transmit_linux(w, ok) == PinCall(w.control_pin, TRUE, ok)

disable_transmit_linux_rts_only(w, ok) == PinCall("RTS", FALSE, ok)

\* "Disable transmit": the second match on control_pin
disable_transmit_linux(w, ok) == PinCall(w.control_pin, FALSE, ok)

toggle_result_linux_reports_flush(o) ==
    IF ~o.deassert_ok THEN Err("deassert")
    ELSE IF ~o.flush_ok THEN Err("flush") ELSE WriteResult(o)

toggle_result_linux_write_error_first(o) ==
    IF ~o.write_ok THEN Err("write")
    ELSE IF ~o.deassert_ok THEN Err("deassert") ELSE WriteResult(o)

\* `?` on the de-assertion, then `result`
toggle_result_linux(o) ==
    IF ~o.deassert_ok THEN Err("deassert") ELSE WriteResult(o)

manual_toggle_linux_ignores_assert_failure(w, len, o) ==
    [calls |-> <<enable_transmit_linux(w, o.assert_ok),
                 WriteCall(len, o.write_ok),
                 FlushCall(o.flush_ok),
                 disable_transmit_linux(w, o.deassert_ok)>>,
     result |-> toggle_result_linux(o)]

manual_toggle_linux_returns_on_write_error(w, len, o) ==
    IF ~o.assert_ok
    THEN [calls |-> <<enable_transmit_linux(w, FALSE)>>,
          result |-> Err("assert")]
    ELSE IF ~o.write_ok
    THEN [calls |-> <<enable_transmit_linux(w, TRUE),
                      WriteCall(len, o.write_ok)>>,
          result |-> Err("write")]
    ELSE [calls |-> <<enable_transmit_linux(w, TRUE),
                      WriteCall(len, o.write_ok),
                      FlushCall(o.flush_ok),
                      disable_transmit_linux(w, o.deassert_ok)>>,
          result |-> toggle_result_linux(o)]

\* the Auto | Manual arm: enable transmit, write, flush, disable transmit

manual_toggle_linux(w, len, o) ==
    IF ~o.assert_ok
    THEN [calls |-> <<enable_transmit_linux(w, FALSE)>>,
          result |-> Err("assert")]
    ELSE [calls |-> <<enable_transmit_linux(w, TRUE),
                      WriteCall(len, o.write_ok),
                      FlushCall(o.flush_ok),
                      disable_transmit_linux(w, o.deassert_ok)>>,
          result |-> toggle_result_linux(o)]

write_rs485_linux_returns_on_write_error(w, len, o) ==
    CASE write_path_linux(w) = "raw" ->
            [calls |-> <<WriteCall(len, o.write_ok)>>, result |-> WriteResult(o)]
      [] write_path_linux(w) = "kernel" ->
            [calls |-> IF o.write_ok
                       THEN <<WriteCall(len, o.write_ok), FlushCall(o.flush_ok)>>
                       ELSE <<WriteCall(len, o.write_ok)>>,
             result |-> WriteResult(o)]
      [] OTHER -> manual_toggle_linux(w, len, o)

write_rs485_linux(w, len, o) ==
    CASE write_path_linux(w) = "raw" ->
            [calls |-> <<WriteCall(len, o.write_ok)>>, result |-> WriteResult(o)]
      [] write_path_linux(w) = "kernel" ->
            [calls |-> <<WriteCall(len, o.write_ok), FlushCall(o.flush_ok)>>,
             result |-> WriteResult(o)]
      [] OTHER -> manual_toggle_linux(w, len, o)

write_rs485_other(w, len, o) ==
    IF w.control_mode # "None"
    THEN LET transmit_level == w.rts_active_high
             receive_level == ~w.rts_active_high
         IN  IF ~o.assert_ok
             THEN [calls |-> <<PinCall(w.control_pin, transmit_level, FALSE)>>,
                   result |-> Err("assert")]
             ELSE [calls |-> <<PinCall(w.control_pin, transmit_level, TRUE),
                               WriteCall(len, o.write_ok),
                               FlushCall(o.flush_ok),
                               PinCall(w.control_pin, receive_level,
                                       o.deassert_ok)>>,
                   result |-> IF ~o.deassert_ok THEN Err("deassert")
                              ELSE WriteResult(o)]
    ELSE [calls |-> <<WriteCall(len, o.write_ok)>>, result |-> WriteResult(o)]

----------------------------------------------------------------------------
(* Error context store (lib.rs) *)

\* the threads that call into the library
Threads == {"t1", "t2"}

\* Option<T>: None and Some(x)
None == <<>>
Some(x) == <<x>>

\* the text of the error `e` a failed transport or JNI call carries
IoError == "Input/output error"

\* ErrorContext { message, file: file!(), line: line!() } as set_error!
\* builds it when it is expanded at `line`
ErrorContext(message, line) ==
    [message |-> message, file |-> "src/lib.rs", line |-> line]

LAST_ERROR_shared(t) == "t1"

\* thread_local!: the cell of LAST_ERROR that thread t sees is its own
LAST_ERROR(t) == t

\* set_error!: *e.borrow_mut() = Some(ErrorContext { .. })
set_error(cell, ctx) == Some(ctx)

\* clear_error: *e.borrow_mut() = None
clear_error(cell) == None

\* format!("{} (at {}:{})", ctx.message, ctx.file, ctx.line), or None
get_last_error_string(cell) ==
    IF cell = None
    THEN None
    ELSE Some(cell[1].message \o " (at " \o cell[1].file \o ":"
                \o ToString(cell[1].line) \o ")")

\* a jstring made by env.new_string; null (None) when that fails
string_to_jstring(s, ok) == IF ok THEN Some(s) ELSE None

\* no exported function has been called, or its caller has taken the result
\* the arguments of a call that configure RS-485 (the others are not kept)
NoJniArgs ==
    [enabled |-> FALSE, rs485_mode |-> 0, rs485_pin |-> 0,
     rts_active_high |-> TRUE, rx_during_tx |-> FALSE,
     termination_enabled |-> FALSE, delay_before |-> 0, delay_after |-> 0]

JniArgs(enabled, rs485_mode, rs485_pin, a) ==
    [enabled |-> enabled, rs485_mode |-> rs485_mode, rs485_pin |-> rs485_pin,
     rts_active_high |-> a.rts_active_high, rx_during_tx |-> a.rx_during_tx,
     termination_enabled |-> a.termination_enabled,
     delay_before |-> a.delay_before, delay_after |-> a.delay_after]

JniIdle ==
    [thread |-> "", fn |-> "idle", null_handle |-> FALSE, ret |-> 0,
     failed |-> FALSE, str |-> None, before |-> None, args |-> NoJniArgs,
     mode_before |-> "None"]

ErrIdle ==
    /\ last_error = [t \in Threads |-> None]
    /\ jni = JniIdle
    /\ handle = 1

----------------------------------------------------------------------------
(* The controller as a state machine.  Operations are called one at a time *)
(* (the controller has no internal concurrency): an operation runs from an *)
(* idle state to the state holding its trace and result, and Return hands  *)
(* the result to the caller.                                               *)

ExtendedArgs ==
    [mode : Rs485ControlMode, pin : Rs485ControlPin,
     rts_active_high : BOOLEAN, rx_during_tx : BOOLEAN,
     termination_enabled : BOOLEAN,
     delay_before : Delays, delay_after : Delays, len : {0}]

Idle == OpRec("idle", NoArgs)

CtrlInit ==
    /\ platform \in Platforms
    /\ wrapper = IF platform = "linux" THEN new_linux ELSE new_other
    /\ kernel = FALSE
    /\ op = Idle
    /\ calls = <<>>
    /\ result = Ok(0)

Apply(r, o) ==
    /\ wrapper' = r.wrapper
    /\ kernel' = r.kernel
    /\ calls' = r.calls
    /\ result' = r.result
    /\ op' = o
    /\ UNCHANGED <<platform, timeoutVars, errVars>>

Disables == is_kernel_rs485_active(platform, wrapper)
Attempts(mode, pin) == platform = "linux" /\ kernel_attempted(mode, pin)

\* set_mode
ConfigureRs485 ==
    /\ op = Idle
    /\ \E mode \in Rs485ControlMode, pin \in Rs485ControlPin :
      \E e \in KernelOutcomes(Disables, Attempts(mode, pin)) :
        Apply(IF platform = "linux"
              THEN configure_rs485_linux(wrapper, kernel, mode, pin, e)
              ELSE configure_rs485_other(wrapper, kernel, mode, pin),
              OpRec("configure_rs485",
                    [NoArgs EXCEPT !.mode = mode, !.pin = pin]))

\* set_extended_config
ConfigureRs485Extended ==
    /\ op = Idle
    /\ \E a \in ExtendedArgs :
      \E e \in KernelOutcomes(Disables, Attempts(a.mode, a.pin)) :
        Apply(IF platform = "linux"
              THEN configure_rs485_extended_linux(wrapper, kernel, a, e)
              ELSE configure_rs485_extended_other(wrapper, kernel, a),
              OpRec("configure_rs485_extended", a))

setRs485Delays_other_reports_success(plat, w, k, before, after, e) ==
    IF plat = "linux"
    THEN LET r == set_rs485_delays(w, k, before, after, e)
         IN  [wrapper |-> r.wrapper, kernel |-> r.kernel, calls |-> r.calls,
              result |-> Ok(1)]
    ELSE [wrapper |-> w, kernel |-> k, calls |-> <<>>, result |-> Ok(1)]

\* setRs485Delays with a valid handle
setRs485Delays(plat, w, k, before, after, e) ==
    IF plat = "linux"
    THEN LET r == set_rs485_delays(w, k, before, after, e)
         IN  [wrapper |-> r.wrapper, kernel |-> r.kernel, calls |-> r.calls,
              result |-> Ok(1)]
    ELSE [wrapper |-> w, kernel |-> k, calls |-> <<>>, result |-> Ok(0)]

SetRs485Delays ==
    /\ op = Idle
    /\ \E before \in Delays, after \in Delays :
      \E e \in KernelOutcomes(FALSE, Disables) :
        Apply(setRs485Delays(platform, wrapper, kernel, before, after, e),
              OpRec("set_rs485_delays",
                    [NoArgs EXCEPT !.delay_before = before,
                                   !.delay_after = after]))

WriteRs485 ==
    /\ op = Idle
    /\ \E len \in DataLens :
        \E o \in WriteOutcomes(len) :
            LET r == IF platform = "linux"
                     THEN write_rs485_linux(wrapper, len, o)
                     ELSE write_rs485_other(wrapper, len, o)
            IN  Apply([wrapper |-> wrapper, kernel |-> kernel,
                       calls |-> r.calls, result |-> r.result],
                      OpRec("write_rs485", [NoArgs EXCEPT !.len = len]))

\* the caller takes the result; the trace of the finished call is dropped
Return ==
    /\ op # Idle
    /\ op' = Idle
    /\ calls' = <<>>
    /\ result' = Ok(0)
    /\ UNCHANGED <<platform, wrapper, kernel, timeoutVars, errVars>>

----------------------------------------------------------------------------
(* u64 arithmetic.  A u64 is four 16-bit limbs, least significant first;   *)
(* a carry out of the top limb is the overflow of the 64-bit operation.    *)

LimbBase == 2^16

U64 == [1..4 -> 0..(LimbBase - 1)]

U64Zero == <<0, 0, 0, 0>>

\* `x as u64` for a jint x: sign extension of the 32-bit value
as_u64(x) ==
    LET ext == IF x < 0 THEN LimbBase - 1 ELSE 0
    IN  <<x % LimbBase, (x \div LimbBase) % LimbBase, ext, ext>>

\* u64 + small constant: the wrapped sum and whether it overflowed
u64_add(x, c) ==
    LET s1 == x[1] + c
        s2 == x[2] + (s1 \div LimbBase)
        s3 == x[3] + (s2 \div LimbBase)
        s4 == x[4] + (s3 \div LimbBase)
    IN  [v |-> <<s1 % LimbBase, s2 % LimbBase, s3 % LimbBase, s4 % LimbBase>>,
         overflow |-> s4 \div LimbBase > 0]

\* u64 / small constant (long division from the top limb) and the remainder
u64_divmod(x, d) ==
    LET t4 == x[4]
        t3 == (t4 % d) * LimbBase + x[3]
        t2 == (t3 % d) * LimbBase + x[2]
        t1 == (t2 % d) * LimbBase + x[1]
    IN  [q |-> <<t1 \div d, t2 \div d, t3 \div d, t4 \div d>>, r |-> t1 % d]

\* u64 * small constant: the wrapped product and whether it overflowed
u64_mul(x, m) ==
    LET p1 == x[1] * m
        p2 == x[2] * m + (p1 \div LimbBase)
        p3 == x[3] * m + (p2 \div LimbBase)
        p4 == x[4] * m + (p3 \div LimbBase)
    IN  [v |-> <<p1 % LimbBase, p2 % LimbBase, p3 % LimbBase, p4 % LimbBase>>,
         overflow |-> p4 \div LimbBase > 0]

u64_leq(x, y) ==
    \/ x = y
    \/ \E i \in 1..4 : x[i] < y[i] /\ \A j \in (i + 1)..4 : x[j] = y[j]

----------------------------------------------------------------------------
(* Timeout normalizer (lib.rs) *)

Duration(ms) == [panic |-> FALSE, ms |-> ms]
\* an arithmetic overflow in a build with overflow checks
OverflowPanic == [panic |-> TRUE, ms |-> U64Zero]

normalize_timeout_ms(plat, t, checks) ==
    IF plat = "linux"
    THEN IF t = U64Zero
         THEN Duration(U64Zero)
         ELSE LET sum == u64_add(t, 99)
                  rounded == u64_mul(u64_divmod(sum.v, 100).q, 100)
              IN  IF checks /\ (sum.overflow \/ rounded.overflow)
                  THEN OverflowPanic
                  ELSE Duration(rounded.v)
    ELSE Duration(t)

\* largest jint
MaxJint == 2147483647
\* timeouts offered: 0..MaxTimeoutMs, the MaxTopTimeouts largest jints and
\* the negative jints -MaxNegTimeout..-1
MaxTimeoutMs == 250
MaxTopTimeouts == 100
MaxNegTimeout == 120

TimeoutInputs ==
    (0..MaxTimeoutMs)
    \cup { MaxJint - k : k \in 0..(MaxTopTimeouts - 1) }
    \cup { -k : k \in 1..MaxNegTimeout }

NotNormalized == [done |-> FALSE, panic |-> FALSE, ms |-> U64Zero]

TimeoutIdle ==
    /\ overflow_checks = FALSE
    /\ timeout_ms = 0
    /\ normalized = NotNormalized

Init == CtrlInit /\ TimeoutIdle /\ ErrIdle

Next ==
    \/ ConfigureRs485
    \/ ConfigureRs485Extended
    \/ SetRs485Delays
    \/ WriteRs485
    \/ Return

Spec == Init /\ [][Next]_vars

\* the timeout normalizer alone: a timeout is requested (open, setTimeout)
\* and normalized before it reaches the transport
TimeoutInit ==
    /\ CtrlInit
    /\ ErrIdle
    /\ overflow_checks \in BOOLEAN
    /\ timeout_ms \in TimeoutInputs
    /\ normalized = NotNormalized

Normalize ==
    /\ ~normalized.done
    /\ LET d == normalize_timeout_ms(platform, as_u64(timeout_ms), overflow_checks)
       IN  normalized' = [done |-> TRUE, panic |-> d.panic, ms |-> d.ms]
    /\ UNCHANGED <<ctrlVars, overflow_checks, timeout_ms, errVars>>

RequestTimeout ==
    /\ normalized.done
    /\ timeout_ms' \in TimeoutInputs
    /\ normalized' = NotNormalized
    /\ UNCHANGED <<ctrlVars, overflow_checks, errVars>>

TimeoutNext == Normalize \/ RequestTimeout

SpecTimeout == TimeoutInit /\ [][TimeoutNext]_vars

----------------------------------------------------------------------------
(* The exported functions (lib.rs).  Each returns a value to Java and may   *)
(* record an error context with set_error!.  A function yields             *)
(*   ret     the value returned (jboolean and jint as numbers; 0 for a     *)
(*           null jstring or a zero handle)                                *)
(*   failed  the return is a failure return of the function                *)
(*   error   Some(context) if set_error! ran, None otherwise               *)
(* and the PortWrapper, driver state and transport calls it leaves.  The   *)
(* handle passed is 0 or the handle of the open port.                      *)

Returned(ret, w, k, c) ==
    [ret |-> ret, failed |-> FALSE, error |-> None,
     wrapper |-> w, kernel |-> k, calls |-> c]

Failed(ret, error, w, k, c) ==
    [ret |-> ret, failed |-> TRUE, error |-> error,
     wrapper |-> w, kernel |-> k, calls |-> c]

\* a call of wrapper.port.<fn>()
PortCall(fn, ok) ==
    [fn |-> fn, level |-> FALSE, n |-> 0, desc |-> SerialRs485Default,
     ok |-> ok]

\* variant: the port call is made whatever the handle
port_call_forwards_null(what, null_line, err_line, call, w, k, null) ==
    IF call.ok
    THEN Returned(1, w, k, <<call>>)
    ELSE Failed(0, Some(ErrorContext(what \o " failed: " \o IoError, err_line)),
                w, k, <<call>>)

\* the shape shared by flush, setTimeout, clearInput, clearOutput, clearAll,
\* setRTS and setDTR: null check with set_error!, one port call, 1 or
\* set_error! and 0
port_call(what, null_line, err_line, call, w, k, null) ==
    IF null
    THEN Failed(0, Some(ErrorContext(what \o " failed: port handle is null",
                                     null_line)), w, k, <<>>)
    ELSE IF call.ok
    THEN Returned(1, w, k, <<call>>)
    ELSE Failed(0, Some(ErrorContext(what \o " failed: " \o IoError, err_line)),
                w, k, <<call>>)

\* rs485_mode: 0 = None, 1 = Auto, 2 = Manual, anything else None
control_mode_of(rs485_mode) ==
    CASE rs485_mode = 1 -> "Auto"
      [] rs485_mode = 2 -> "Manual"
      [] OTHER -> "None"

\* rs485_pin: 0 = RTS, 1 = DTR, anything else RTS
control_pin_of(rs485_pin) == IF rs485_pin = 1 THEN "DTR" ELSE "RTS"

new(plat) == IF plat = "linux" THEN new_linux ELSE new_other

\* o: "name" (jstring_to_string fails), "open" (the port cannot be opened),
\* "ok" (the port is opened: a new PortWrapper, configured if a mode other
\* than None is requested, is boxed and its address returned).  w is the
\* state kept when no PortWrapper is made.
Java_open(plat, w, k, o, rs485_mode, rs485_pin, e) ==
    CASE o = "name" ->
            Failed(0, Some(ErrorContext("Invalid port name: "
                        \o "Failed to convert JString: " \o IoError, 169)),
                   w, k, <<>>)
      [] o = "open" ->
            Failed(0, Some(ErrorContext("Failed to open port: " \o IoError, 240)),
                   w, k, <<>>)
      [] OTHER ->
            LET control_mode == control_mode_of(rs485_mode)
                control_pin == control_pin_of(rs485_pin)
                r == IF plat = "linux"
                     THEN configure_rs485_linux(new_linux, k, control_mode,
                                                control_pin, e)
                     ELSE configure_rs485_other(new_other, k, control_mode,
                                                control_pin)
            IN  IF control_mode # "None"
                THEN Returned(1, r.wrapper, r.kernel, r.calls)
                ELSE Returned(1, new(plat), k, <<>>)

\* o: as for open, and "dtr" (DTR is to be suppressed and the call fails: the
\* new PortWrapper is dropped).  configure_rs485_extended is called only if a
\* mode other than None is requested.
Java_openWithRs485Config(plat, w, k, o, dtr_on_open, rs485_mode, rs485_pin, a, e) ==
    CASE o = "name" ->
            Failed(0, Some(ErrorContext("Invalid port name: "
                        \o "Failed to convert JString: " \o IoError, 735)),
                   w, k, <<>>)
      [] o = "open" ->
            Failed(0, Some(ErrorContext("Failed to open port: " \o IoError, 829)),
                   w, k, <<>>)
      [] o = "dtr" /\ ~dtr_on_open ->
            Failed(0, Some(ErrorContext("Failed to suppress DTR: " \o IoError,
                                        804)),
                   w, k, <<PinCall("DTR", FALSE, FALSE)>>)
      [] OTHER ->
            LET control_mode == control_mode_of(rs485_mode)
                control_pin == control_pin_of(rs485_pin)
                args == [a EXCEPT !.mode = control_mode, !.pin = control_pin]
                dtr == IF dtr_on_open THEN <<>>
                       ELSE <<PinCall("DTR", FALSE, TRUE)>>
                r == IF plat = "linux"
                     THEN configure_rs485_extended_linux(new_linux, k, args, e)
                     ELSE configure_rs485_extended_other(new_other, k, args)
            IN  IF control_mode # "None"
                THEN Returned(1, r.wrapper, r.kernel, dtr \o r.calls)
                ELSE Returned(1, new(plat), k, dtr)

\* a handle other than 0 is unboxed and dropped; nothing is returned
Java_close(plat, w, k, null) ==
    IF null THEN Returned(0, w, k, <<>>)
    ELSE Returned(0, new(plat), k, <<PortCall("drop", TRUE)>>)

Java_write(plat, w, k, null, len, buffer_ok, o) ==
    IF null
    THEN Failed(-1, Some(ErrorContext("Write failed: port handle is null", 271)),
                w, k, <<>>)
    ELSE IF ~buffer_ok
    THEN Failed(-1, Some(ErrorContext("Write failed: could not read buffer: "
                                      \o IoError, 277)), w, k, <<>>)
    ELSE LET r == IF plat = "linux" THEN write_rs485_linux(w, len, o)
                                    ELSE write_rs485_other(w, len, o)
         IN  IF r.result.ok
             THEN Returned(r.result.n, w, k, r.calls)
             ELSE Failed(-1, Some(ErrorContext("Write failed: " \o IoError, 289)),
                         w, k, r.calls)

\* o.n: the count port.read returns; the Java buffer is written only if n > 0
Java_read(w, k, null, o) ==
    IF null
    THEN Failed(-1, Some(ErrorContext("Read failed: port handle is null", 307)),
                w, k, <<>>)
    ELSE IF ~o.read_ok
    THEN Failed(-1, Some(ErrorContext("Read failed: " \o IoError, 318)),
                w, k, <<PortCall("read", FALSE)>>)
    ELSE IF o.n > 0 /\ ~o.buffer_ok
    THEN Failed(-1, Some(ErrorContext("Read failed: could not write to buffer: "
                                      \o IoError, 329)),
                w, k, <<PortCall("read", TRUE)>>)
    ELSE Returned(o.n, w, k, <<PortCall("read", TRUE)>>)

\* a null handle returns 0 and set_error! does not run
Java_bytesAvailable(w, k, null, o) ==
    IF null
    THEN Failed(0, None, w, k, <<>>)
    ELSE IF o.ok
    THEN Returned(o.n, w, k, <<PortCall("bytes_to_read", TRUE)>>)
    ELSE Failed(0, Some(ErrorContext("Failed to get bytes available: "
                                     \o IoError, 353)),
                w, k, <<PortCall("bytes_to_read", FALSE)>>)

Java_flush(w, k, null, ok) ==
    port_call("Flush", 368, 377, PortCall("flush", ok), w, k, null)

\* o: "err" (available_ports fails), "jni" (the result string cannot be
\* made: null), "ok"
Java_listPorts(w, k, o) ==
    CASE o = "err" ->
            Failed(0, Some(ErrorContext("Failed to list ports: " \o IoError, 465)),
                   w, k, <<>>)
      [] o = "jni" -> Failed(0, None, w, k, <<>>)
      [] OTHER -> Returned(1, w, k, <<>>)

Java_setTimeout(w, k, null, ok) ==
    port_call("Set timeout", 500, 511, PortCall("set_timeout", ok), w, k, null)

Java_clearInput(w, k, null, ok) ==
    port_call("Clear input", 526, 535, PortCall("clear(Input)", ok), w, k, null)

Java_clearOutput(w, k, null, ok) ==
    port_call("Clear output", 550, 559, PortCall("clear(Output)", ok), w, k, null)

Java_clearAll(w, k, null, ok) ==
    port_call("Clear all", 574, 583, PortCall("clear(All)", ok), w, k, null)

Java_setRTS(w, k, null, level, ok) ==
    port_call("Set RTS", 602, 611, PinCall("RTS", level, ok), w, k, null)

Java_setDTR(w, k, null, level, ok) ==
    port_call("Set DTR", 629, 638, PinCall("DTR", level, ok), w, k, null)

\* 1 if kernel mode is active, 0 otherwise (also for a null handle)
Java_isKernelRs485Active(plat, w, k, null) ==
    IF null THEN Returned(0, w, k, <<>>)
    ELSE Returned(IF is_kernel_rs485_active(plat, w) THEN 1 ELSE 0, w, k, <<>>)

\* 1 on success, 0 on failure or if not on Linux; set_error! is never run
Java_setRs485Delays(plat, w, k, null, before, after, e) ==
    IF null
    THEN Failed(0, None, w, k, <<>>)
    ELSE LET r == setRs485Delays(plat, w, k, before, after, e)
         IN  IF r.result.n = 1
             THEN Returned(1, r.wrapper, r.kernel, r.calls)
             ELSE Failed(0, None, r.wrapper, r.kernel, r.calls)

\* `enabled` selects Auto or None; rs485_pin 1 is DTR, anything else RTS
\* variant: a port in mode Manual stays in it when RS-485 is enabled
Java_setRs485Config_keeps_manual(plat, w, k, null, enabled, rs485_pin, a, e) ==
    IF null
    THEN Failed(0, None, w, k, <<>>)
    ELSE LET control_mode == IF ~enabled THEN "None"
                             ELSE IF w.control_mode = "Manual" THEN "Manual"
                             ELSE "Auto"
             control_pin == IF rs485_pin = 1 THEN "DTR" ELSE "RTS"
             args == [a EXCEPT !.mode = control_mode, !.pin = control_pin]
             r == IF plat = "linux"
                  THEN configure_rs485_extended_linux(w, k, args, e)
                  ELSE configure_rs485_extended_other(w, k, args)
         IN  IF r.result.ok
             THEN Returned(1, r.wrapper, r.kernel, r.calls)
             ELSE Failed(0, Some(ErrorContext("Failed to set RS-485 config: "
                                              \o IoError, 886)),
                         r.wrapper, r.kernel, r.calls)

Java_setRs485Config(plat, w, k, null, enabled, rs485_pin, a, e) ==
    IF null
    THEN Failed(0, None, w, k, <<>>)
    ELSE LET control_mode == IF enabled THEN "Auto" ELSE "None"
             control_pin == IF rs485_pin = 1 THEN "DTR" ELSE "RTS"
             args == [a EXCEPT !.mode = control_mode, !.pin = control_pin]
             r == IF plat = "linux"
                  THEN configure_rs485_extended_linux(w, k, args, e)
                  ELSE configure_rs485_extended_other(w, k, args)
         IN  IF r.result.ok
             THEN Returned(1, r.wrapper, r.kernel, r.calls)
             ELSE Failed(0, Some(ErrorContext("Failed to set RS-485 config: "
                                              \o IoError, 886)),
                         r.wrapper, r.kernel, r.calls)

\* the jstring of get_last_error_string(), or null
Java_getLastError(cell, new_string_ok) ==
    IF get_last_error_string(cell) = None
    THEN None
    ELSE string_to_jstring(get_last_error_string(cell)[1], new_string_ok)

Java_clearLastError(cell) == clear_error(cell)

----------------------------------------------------------------------------
(* The exported functions as a state machine: any thread may call any of   *)
(* them, one call at a time on the one open port; JniReturn hands the      *)
(* value to the caller.                                                    *)

\* variant: a call that returns without failure clears the caller's store
JniEffect_clears_on_success(t, fn, null, a, r) ==
    /\ jni' = [thread |-> t, fn |-> fn, null_handle |-> null, ret |-> r.ret,
               failed |-> r.failed, str |-> None,
               before |-> last_error[LAST_ERROR(t)], args |-> a,
               mode_before |-> wrapper.control_mode]
    /\ last_error' =
          IF r.error = None
          THEN IF r.failed THEN last_error
               ELSE [last_error EXCEPT ![LAST_ERROR(t)] = clear_error(@)]
          ELSE [last_error EXCEPT ![LAST_ERROR(t)] = set_error(@, r.error[1])]
    /\ wrapper' = r.wrapper
    /\ kernel' = r.kernel
    /\ calls' = r.calls
    /\ UNCHANGED <<platform, op, result, timeoutVars>>

\* one call of an exported function: what it returns, the context it records
\* (set_error! is the only writer besides clearLastError) and what it does to
\* the PortWrapper
JniEffect(t, fn, null, a, r) ==
    /\ jni' = [thread |-> t, fn |-> fn, null_handle |-> null, ret |-> r.ret,
               failed |-> r.failed, str |-> None,
               before |-> last_error[LAST_ERROR(t)], args |-> a,
               mode_before |-> wrapper.control_mode]
    /\ last_error' =
          IF r.error = None
          THEN last_error
          ELSE [last_error EXCEPT ![LAST_ERROR(t)] = set_error(@, r.error[1])]
    /\ wrapper' = r.wrapper
    /\ kernel' = r.kernel
    /\ calls' = r.calls
    /\ UNCHANGED <<platform, op, result, timeoutVars>>

\* a call that neither makes nor drops the PortWrapper
JniCallWith(t, fn, null, a, r) ==
    JniEffect(t, fn, null, a, r) /\ UNCHANGED handle

JniCall(t, fn, null, r) == JniCallWith(t, fn, null, NoJniArgs, r)

\* a call of open or openWithRs485Config: when it succeeds Java holds the new
\* handle
JniOpen(t, fn, a, r) ==
    /\ JniEffect(t, fn, FALSE, a, r)
    /\ handle' = IF r.failed THEN handle ELSE 1

\* one port is modelled: a port can be opened only while none is open
OpenOutcomes(all) == IF handle = 0 THEN all ELSE {"name", "open"}

\* the handle a function is called with is 0 or, when a port is open, its
\* handle
NullChoices == IF handle = 0 THEN {TRUE} ELSE BOOLEAN

CallOpen ==
    /\ jni = JniIdle
    /\ \E t \in Threads, o \in OpenOutcomes({"name", "open", "ok"}) :
          JniOpen(t, "open", NoJniArgs,
                  Java_open(platform, wrapper, kernel, o, 0, 0,
                            CHOOSE e \in KernelOutcomes(FALSE, FALSE) : TRUE))

CallOpenWithRs485Config ==
    /\ jni = JniIdle
    /\ \E t \in Threads, o \in OpenOutcomes({"name", "dtr", "open", "ok"}),
          dtr_on_open \in BOOLEAN :
          JniOpen(t, "openWithRs485Config", NoJniArgs,
                  Java_openWithRs485Config(
                      platform, wrapper, kernel, o, dtr_on_open, 0, 0, NoArgs,
                      CHOOSE e \in KernelOutcomes(FALSE, FALSE) : TRUE))

CallClose ==
    /\ jni = JniIdle
    /\ \E t \in Threads, null \in NullChoices :
          /\ JniEffect(t, "close", null, NoJniArgs,
                       Java_close(platform, wrapper, kernel, null))
          /\ handle' = IF null THEN handle ELSE 0

CallWrite ==
    /\ jni = JniIdle
    /\ \E t \in Threads, null \in NullChoices, buffer_ok \in BOOLEAN :
       \E o \in WriteOutcomes(1) :
          JniCall(t, "write", null,
                  Java_write(platform, wrapper, kernel, null, 1, buffer_ok, o))

CallRead ==
    /\ jni = JniIdle
    /\ \E t \in Threads, null \in NullChoices :
       \E o \in [read_ok : BOOLEAN, n : 0..1, buffer_ok : BOOLEAN] :
          JniCall(t, "read", null, Java_read(wrapper, kernel, null, o))

CallBytesAvailable ==
    /\ jni = JniIdle
    /\ \E t \in Threads, null \in NullChoices :
       \E o \in [ok : BOOLEAN, n : 0..1] :
          JniCall(t, "bytesAvailable", null,
                  Java_bytesAvailable(wrapper, kernel, null, o))

CallFlush ==
    /\ jni = JniIdle
    /\ \E t \in Threads, null \in NullChoices, ok \in BOOLEAN :
          JniCall(t, "flush", null, Java_flush(wrapper, kernel, null, ok))

CallListPorts ==
    /\ jni = JniIdle
    /\ \E t \in Threads, o \in {"err", "jni", "ok"} :
          JniCall(t, "listPorts", FALSE, Java_listPorts(wrapper, kernel, o))

CallSetTimeout ==
    /\ jni = JniIdle
    /\ \E t \in Threads, null \in NullChoices, ok \in BOOLEAN :
          JniCall(t, "setTimeout", null,
                  Java_setTimeout(wrapper, kernel, null, ok))

CallClearInput ==
    /\ jni = JniIdle
    /\ \E t \in Threads, null \in NullChoices, ok \in BOOLEAN :
          JniCall(t, "clearInput", null,
                  Java_clearInput(wrapper, kernel, null, ok))

CallClearOutput ==
    /\ jni = JniIdle
    /\ \E t \in Threads, null \in NullChoices, ok \in BOOLEAN :
          JniCall(t, "clearOutput", null,
                  Java_clearOutput(wrapper, kernel, null, ok))

CallClearAll ==
    /\ jni = JniIdle
    /\ \E t \in Threads, null \in NullChoices, ok \in BOOLEAN :
          JniCall(t, "clearAll", null,
                  Java_clearAll(wrapper, kernel, null, ok))

CallSetRTS ==
    /\ jni = JniIdle
    /\ \E t \in Threads, null \in NullChoices, level \in BOOLEAN, ok \in BOOLEAN :
          JniCall(t, "setRTS", null,
                  Java_setRTS(wrapper, kernel, null, level, ok))

CallSetDTR ==
    /\ jni = JniIdle
    /\ \E t \in Threads, null \in NullChoices, level \in BOOLEAN, ok \in BOOLEAN :
          JniCall(t, "setDTR", null,
                  Java_setDTR(wrapper, kernel, null, level, ok))

CallIsKernelRs485Active ==
    /\ jni = JniIdle
    /\ \E t \in Threads, null \in NullChoices :
          JniCall(t, "isKernelRs485Active", null,
                  Java_isKernelRs485Active(platform, wrapper, kernel, null))

CallSetRs485Delays ==
    /\ jni = JniIdle
    /\ \E t \in Threads, null \in NullChoices :
       \E e \in KernelOutcomes(FALSE, ~null /\ Disables) :
          JniCall(t, "setRs485Delays", null,
                  Java_setRs485Delays(platform, wrapper, kernel, null, 0, 0, e))

CallSetRs485Config ==
    /\ jni = JniIdle
    /\ \E t \in Threads, null \in NullChoices, enabled \in BOOLEAN :
       \E e \in KernelOutcomes(~null /\ Disables,
                               ~null /\ Attempts(IF enabled THEN "Auto"
                                                 ELSE "None", "RTS")) :
          JniCallWith(t, "setRs485Config", null,
                      JniArgs(enabled, 0, 0, NoArgs),
                      Java_setRs485Config(platform, wrapper, kernel, null,
                                          enabled, 0, NoArgs, e))

CallGetLastError ==
    /\ jni = JniIdle
    /\ \E t \in Threads, new_string_ok \in BOOLEAN :
          jni' = [JniIdle EXCEPT
                    !.thread = t, !.fn = "getLastError",
                    !.str = Java_getLastError(last_error[LAST_ERROR(t)],
                                              new_string_ok),
                    !.before = last_error[LAST_ERROR(t)]]
    /\ UNCHANGED <<ctrlVars, timeoutVars, last_error, handle>>

CallClearLastError ==
    /\ jni = JniIdle
    /\ \E t \in Threads :
          /\ jni' = [JniIdle EXCEPT
                       !.thread = t, !.fn = "clearLastError",
                       !.before = last_error[LAST_ERROR(t)]]
          /\ last_error' = [last_error EXCEPT
                              ![LAST_ERROR(t)] = Java_clearLastError(@)]
    /\ UNCHANGED <<ctrlVars, timeoutVars, handle>>

JniReturn ==
    /\ jni # JniIdle
    /\ jni' = JniIdle
    /\ calls' = <<>>
    /\ UNCHANGED <<platform, wrapper, kernel, op, result, timeoutVars,
                   last_error, handle>>

ErrNext ==
    \/ CallOpen
    \/ CallOpenWithRs485Config
    \/ CallClose
    \/ CallWrite
    \/ CallRead
    \/ CallBytesAvailable
    \/ CallFlush
    \/ CallListPorts
    \/ CallSetTimeout
    \/ CallClearInput
    \/ CallClearOutput
    \/ CallClearAll
    \/ CallSetRTS
    \/ CallSetDTR
    \/ CallIsKernelRs485Active
    \/ CallSetRs485Delays
    \/ CallSetRs485Config
    \/ CallGetLastError
    \/ CallClearLastError
    \/ JniReturn

SpecErr == Init /\ [][ErrNext]_vars

----------------------------------------------------------------------------
(* The life of one port: Java opens it with either open function, with any *)
(* mode, pin and extended attributes, reconfigures it with setRs485Config  *)
(* and closes it.  One thread is enough here.                              *)

\* the jint values Java may pass: every value the match arms name and one
\* they do not
Rs485ModeArgs == 0..3
Rs485PinArgs == 0..2

\* the extended attributes Java may pass: each flag either way, each delay
\* zero or not
PortDelays == {0, 750}
AttributeArgs ==
    { a \in ExtendedArgs :
        /\ a.mode = "None" /\ a.pin = "RTS"
        /\ a.delay_before \in PortDelays /\ a.delay_after \in PortDelays }

\* the arguments drawn for a call: one choice is enough where the function
\* returns before it looks at them
ModeArgsIf(used) == IF used THEN Rs485ModeArgs ELSE {0}
PinArgsIf(used) == IF used THEN Rs485PinArgs ELSE {0}
AttributeArgsIf(used) == IF used THEN AttributeArgs ELSE {NoArgs}

PortInit ==
    /\ CtrlInit
    /\ TimeoutIdle
    /\ last_error = [t \in Threads |-> None]
    /\ jni = JniIdle
    /\ handle = 0

PortOpen ==
    /\ jni = JniIdle
    /\ \E o \in OpenOutcomes({"name", "open", "ok"}) :
       \E rs485_mode \in ModeArgsIf(o = "ok"), rs485_pin \in PinArgsIf(o = "ok") :
       \E e \in KernelOutcomes(FALSE,
                               /\ o = "ok"
                               /\ Attempts(control_mode_of(rs485_mode),
                                           control_pin_of(rs485_pin))) :
          JniOpen("t1", "open", JniArgs(FALSE, rs485_mode, rs485_pin, NoArgs),
                  Java_open(platform, wrapper, kernel, o, rs485_mode,
                            rs485_pin, e))

PortOpenWithRs485Config ==
    /\ jni = JniIdle
    /\ \E o \in OpenOutcomes({"name", "dtr", "open", "ok"}),
          dtr_on_open \in BOOLEAN :
       LET configures == o = "ok" \/ (o = "dtr" /\ dtr_on_open)
       IN  \E rs485_mode \in ModeArgsIf(configures),
              rs485_pin \in PinArgsIf(configures),
              a \in AttributeArgsIf(configures) :
           \E e \in KernelOutcomes(FALSE,
                                   /\ configures
                                   /\ Attempts(control_mode_of(rs485_mode),
                                               control_pin_of(rs485_pin))) :
              JniOpen("t1", "openWithRs485Config",
                      JniArgs(FALSE, rs485_mode, rs485_pin, a),
                      Java_openWithRs485Config(platform, wrapper, kernel, o,
                                               dtr_on_open, rs485_mode,
                                               rs485_pin, a, e))

PortSetRs485Config ==
    /\ jni = JniIdle
    /\ \E null \in NullChoices, enabled \in BOOLEAN :
       \E rs485_pin \in PinArgsIf(~null), a \in AttributeArgsIf(~null) :
       \E e \in KernelOutcomes(~null /\ Disables,
                               /\ ~null
                               /\ Attempts(IF enabled THEN "Auto" ELSE "None",
                                           control_pin_of(rs485_pin))) :
          JniCallWith("t1", "setRs485Config", null,
                      JniArgs(enabled, 0, rs485_pin, a),
                      Java_setRs485Config(platform, wrapper, kernel, null,
                                          enabled, rs485_pin, a, e))

PortClose ==
    /\ jni = JniIdle
    /\ \E null \in NullChoices :
          /\ JniEffect("t1", "close", null, NoJniArgs,
                       Java_close(platform, wrapper, kernel, null))
          /\ handle' = IF null THEN handle ELSE 0

PortNext ==
    \/ PortOpen
    \/ PortOpenWithRs485Config
    \/ PortSetRs485Config
    \/ PortClose
    \/ JniReturn

SpecPort == PortInit /\ [][PortNext]_vars

----------------------------------------------------------------------------
(* Vocabulary of the properties *)

IsPinCall(c) == c.fn \in {PinFn("RTS"), PinFn("DTR")}

\* an ioctl that asks the driver to enable RS-485
IsEnableCall(c) == c.fn = "TIOCSRS485" /\ HasFlag(c.desc.flags, SER_RS485_ENABLED)

\* an ioctl that asks the driver to disable RS-485: the all-zero descriptor
IsDisableCall(c) == c.fn = "TIOCSRS485" /\ c.desc = SerialRs485Default

KernelActive == is_kernel_rs485_active(platform, wrapper)

\* the mode in which write toggles the pin itself
ManualToggleMode ==
    \/ wrapper.control_mode = "Manual"
    \/ wrapper.control_mode = "Auto" /\ ~KernelActive

\* a step that is one call of write / of set_mode or set_extended_config
WriteStep == op = Idle /\ op'.name = "write_rs485"
SetModeStep ==
    op = Idle /\ op'.name \in {"configure_rs485", "configure_rs485_extended"}

\* the complete manual sequence on one pin: set pin, write, flush, set pin
ToggleSequenceOn(c, pin) ==
    /\ Len(c) = 4
    /\ c[1].fn = PinFn(pin) /\ c[1].ok
    /\ c[2].fn = "write"
    /\ c[3].fn = "flush"
    /\ c[4].fn = PinFn(pin)
    /\ c[4].level # c[1].level

\* the manual sequence cut short by a failed first pin call
ToggleRefusedOn(c, pin) ==
    Len(c) = 1 /\ c[1].fn = PinFn(pin) /\ ~c[1].ok

----------------------------------------------------------------------------
(* Properties *)

\* C1: a write in Manual mode, or in Automatic mode without kernel
\* delegation, drives the selected pin before the raw write begins and drives
\* it back (to the opposite level) after the flush, whether or not the raw
\* write or the flush failed.  (Which level is the transmit level is C4.)
C1_PinAroundWrite ==
    [][(WriteStep /\ ManualToggleMode) =>
          LET c == calls'
              pin == PinFn(wrapper.control_pin)
          IN  /\ Len(c) >= 1
              /\ c[1].fn = pin
              /\ \A i \in 1..Len(c) :
                    c[i].fn = "write" =>
                       /\ i > 1 /\ c[1].ok
                       /\ \E f \in (i + 1)..Len(c) :
                             /\ c[f].fn = "flush"
                             /\ \E d \in (f + 1)..Len(c) :
                                   /\ c[d].fn = pin
                                   /\ c[d].level # c[1].level
              /\ \A d \in 2..Len(c) :
                    IsPinCall(c[d]) => \E f \in 2..(d - 1) : c[f].fn = "flush"
       ]_vars

\* C1 witness: a manual write whose raw write and flush both failed and whose
\* pin was still driven back
C1_Witness ==
    /\ op.name = "write_rs485"
    /\ wrapper.control_mode = "Manual"
    /\ Len(calls) = 4
    /\ ~calls[2].ok /\ ~calls[3].ok
    /\ IsPinCall(calls[4]) /\ calls[4].ok

\* C2: kernel_active is true only if the recorded mode is Automatic and the
\* recorded pin is RTS, and set_mode(Automatic, DTR) never leaves it true.
C2_KernelActiveOnlyAutoRts ==
    /\ KernelActive =>
          wrapper.control_mode = "Auto" /\ wrapper.control_pin = "RTS"
    /\ (/\ op.name \in {"configure_rs485", "configure_rs485_extended"}
        /\ op.mode = "Auto" /\ op.pin = "DTR") => ~KernelActive

\* C2 witness: set_mode(Automatic, DTR) called while delegation was active
\* (it issued the disable call), on the platform with kernel support
C2_Witness ==
    /\ platform = "linux"
    /\ op.name = "configure_rs485" /\ op.mode = "Auto" /\ op.pin = "DTR"
    /\ Len(calls) = 1 /\ IsDisableCall(calls[1])

\* C3: set_mode(Manual, pin) issues no kernel enable call and ends with
\* kernel_active false; when delegation was active before, its first call is
\* the kernel disable call.
C3_ManualNeverKernel ==
    [][(SetModeStep /\ op'.mode = "Manual") =>
          /\ \A i \in 1..Len(calls') : ~IsEnableCall(calls'[i])
          /\ ~is_kernel_rs485_active(platform, wrapper')
          /\ KernelActive => (Len(calls') >= 1 /\ IsDisableCall(calls'[1]))
       ]_vars

\* C3 witness: set_mode(Manual, RTS) right after delegation had been active
C3_Witness ==
    /\ op.name = "configure_rs485" /\ op.mode = "Manual" /\ op.pin = "RTS"
    /\ Len(calls) = 1 /\ IsDisableCall(calls[1])
    /\ ~KernelActive

\* C4: in the manual-toggle write path the level driven before the raw write
\* is the polarity's active level (rts_active_high) and the level driven
\* after the flush is the opposite level, on both platform variants.
C4_LevelsFollowPolarity ==
    (op.name = "write_rs485" /\ Len(calls) >= 1 /\ IsPinCall(calls[1])) =>
        /\ calls[1].level = wrapper.rts_active_high
        /\ Len(calls) = 4 => calls[4].level = (~wrapper.rts_active_high)

\* C4 witness: a complete manual-toggle write with active-low polarity
C4_Witness ==
    /\ op.name = "write_rs485"
    /\ ~wrapper.rts_active_high
    /\ Len(calls) = 4 /\ IsPinCall(calls[1]) /\ IsPinCall(calls[4])

\* C5: a write in Disabled mode makes exactly one transport call, the raw
\* write of the data, and returns its result; no pin is set.
C5_DisabledWriteIsRaw ==
    [][(WriteStep /\ wrapper.control_mode = "None") =>
          /\ Len(calls') = 1
          /\ calls'[1].fn = "write" /\ calls'[1].n = op'.len
          /\ result'.ok = calls'[1].ok
          /\ \A i \in 1..Len(calls') : ~IsPinCall(calls'[i])
       ]_vars

\* C5 witness: a successful write in Disabled mode
C5_Witness ==
    /\ op.name = "write_rs485" /\ wrapper.control_mode = "None"
    /\ Len(calls) = 1 /\ result.ok /\ result.n > 0

\* C6: every pin operation of a manual-toggle write is on the selected pin.
C6_OnlySelectedPin ==
    [][(WriteStep /\ ManualToggleMode) =>
          \A i \in 1..Len(calls') :
             IsPinCall(calls'[i]) => calls'[i].fn = PinFn(wrapper.control_pin)
       ]_vars

\* C6 witness: a complete manual-toggle write with pin = DTR
C6_Witness ==
    /\ op.name = "write_rs485"
    /\ wrapper.control_mode = "Manual" /\ wrapper.control_pin = "DTR"
    /\ ToggleSequenceOn(calls, "DTR")

\* the enable attempt of the last operation was verified: its last call is a
\* successful read-back showing the enabled bit
EnableVerified(c) ==
    /\ Len(c) >= 2
    /\ c[Len(c)].fn = "TIOCGRS485" /\ c[Len(c)].ok
    /\ HasFlag(c[Len(c)].desc.flags, SER_RS485_ENABLED)

\* C7: set_mode(Automatic, RTS) succeeds whether or not delegation could be
\* enabled; when it could not, kernel_active is false, and a write in that
\* state makes the manual sequence on RTS.
C7_SilentFallback ==
    [][/\ (SetModeStep /\ op'.mode = "Auto" /\ op'.pin = "RTS") =>
             /\ result'.ok
             /\ ~EnableVerified(calls') =>
                   ~is_kernel_rs485_active(platform, wrapper')
       /\ (/\ WriteStep
           /\ wrapper.control_mode = "Auto" /\ wrapper.control_pin = "RTS"
           /\ ~KernelActive) =>
             \/ ToggleSequenceOn(calls', "RTS")
             \/ ToggleRefusedOn(calls', "RTS")
       ]_vars

\* C7 witness: on the platform with kernel support, a successful write by
\* manual toggling in Automatic mode on RTS, after the fallback
C7_Witness ==
    /\ platform = "linux"
    /\ op.name = "write_rs485"
    /\ wrapper.control_mode = "Auto" /\ wrapper.control_pin = "RTS"
    /\ ~KernelActive
    /\ ToggleSequenceOn(calls, "RTS") /\ calls[4].ok /\ result.ok

\* C8: when the de-assertion of the pin fails, write returns that failure,
\* whether the raw write had failed or succeeded.
C8_DeassertFailureReported ==
    (/\ op.name = "write_rs485"
     /\ Len(calls) = 4 /\ IsPinCall(calls[4]) /\ ~calls[4].ok) =>
        result = Err("deassert")

\* C8 witness: raw write failed and de-assertion failed
C8_Witness ==
    /\ op.name = "write_rs485"
    /\ Len(calls) = 4 /\ IsPinCall(calls[4])
    /\ ~calls[2].ok /\ ~calls[4].ok

\* C9 as stated: after set_extended_config the five stored attributes equal
\* the values passed, on both platform variants.
C9_AllFiveStored ==
    op.name = "configure_rs485_extended" =>
        /\ {"rx_during_tx", "termination_enabled", "delay_before_send_micros",
            "delay_after_send_micros"} \subseteq DOMAIN wrapper
        /\ wrapper.rts_active_high = op.rts_active_high
        /\ wrapper.rx_during_tx = op.rx_during_tx
        /\ wrapper.termination_enabled = op.termination_enabled
        /\ wrapper.delay_before_send_micros = op.delay_before
        /\ wrapper.delay_after_send_micros = op.delay_after

\* C9 amended: after set_extended_config the stored polarity equals the value
\* passed on both variants; on the variant with kernel support the other four
\* attributes equal the values passed too, whatever the mode, the pin and the
\* outcome of the enable attempt; the other variant has no place for them.
C9_StoredPerPlatform ==
    op.name = "configure_rs485_extended" =>
        /\ wrapper.rts_active_high = op.rts_active_high
        /\ IF platform = "linux"
           THEN /\ wrapper.rx_during_tx = op.rx_during_tx
                /\ wrapper.termination_enabled = op.termination_enabled
                /\ wrapper.delay_before_send_micros = op.delay_before
                /\ wrapper.delay_after_send_micros = op.delay_after
           ELSE DOMAIN wrapper =
                   {"control_mode", "control_pin", "rts_active_high"}

\* C9 witness: values other than the defaults stored although the enable
\* attempt failed
C9_Witness ==
    /\ platform = "linux"
    /\ op.name = "configure_rs485_extended"
    /\ op.mode = "Auto" /\ op.pin = "RTS" /\ ~KernelActive
    /\ ~wrapper.rts_active_high /\ wrapper.rx_during_tx
    /\ wrapper.termination_enabled
    /\ wrapper.delay_before_send_micros > 0
    /\ wrapper.delay_after_send_micros > wrapper.delay_before_send_micros

\* C10: on Linux a timeout T > 0 is normalized to the smallest multiple of
\* 100 that is >= T and 0 to 0; elsewhere the timeout is passed unchanged.
C10_RoundsUpToDecisecond ==
    normalized.done =>
        LET t == as_u64(timeout_ms)
        IN  /\ ~normalized.panic
            /\ IF platform # "linux" \/ t = U64Zero
               THEN normalized.ms = t
               ELSE /\ u64_divmod(normalized.ms, 100).r = 0
                    /\ u64_leq(t, normalized.ms)
                    /\ \E d \in 0..99 :
                          /\ ~u64_add(t, d).overflow
                          /\ u64_add(t, d).v = normalized.ms

\* C10 witness: a timeout that is not a multiple of 100 was rounded up
C10_Witness ==
    /\ normalized.done /\ platform = "linux"
    /\ timeout_ms = 101
    /\ normalized.ms = as_u64(200)

\* a step that is one call of any operation of the controller
OperationStep == op = Idle /\ op' # Idle

\* the trace holds an enable attempt
EnableAttempted(c) == \E i \in 1..Len(c) : IsEnableCall(c[i])

\* C15: kernel_active becomes true only if the set call of an enable attempt
\* succeeded, the get call after it succeeded and the descriptor read back has
\* the enabled bit; a failed set call is followed by no get call; an enable
\* attempt of set_mode that fails in any of the three ways leaves
\* kernel_active false.
C15_ActivationOnlyWhenVerified ==
    [][OperationStep =>
          LET c == calls'
              n == Len(calls')
              active == is_kernel_rs485_active(platform, wrapper')
          IN  /\ \A i \in 1..n :
                    (IsEnableCall(c[i]) /\ ~c[i].ok) => i = n
              /\ \A i \in 1..n :
                    c[i].fn = "TIOCGRS485" =>
                       i > 1 /\ IsEnableCall(c[i - 1]) /\ c[i - 1].ok
              /\ (~KernelActive /\ active) =>
                    /\ EnableVerified(c)
                    /\ IsEnableCall(c[n - 1]) /\ c[n - 1].ok
              /\ (SetModeStep /\ EnableAttempted(c) /\ ~EnableVerified(c)) =>
                    ~active
       ]_vars

\* C15 witness: set and get both succeeded but the descriptor read back lacks
\* the enabled bit, and kernel_active is false
C15_Witness ==
    /\ op.name = "configure_rs485"
    /\ Len(calls) >= 2
    /\ IsEnableCall(calls[Len(calls) - 1]) /\ calls[Len(calls) - 1].ok
    /\ calls[Len(calls)].fn = "TIOCGRS485" /\ calls[Len(calls)].ok
    /\ ~HasFlag(calls[Len(calls)].desc.flags, SER_RS485_ENABLED)
    /\ ~KernelActive

\* C16: set_mode or set_extended_config called while kernel_active is true
\* issues the kernel disable call (set with the all-zero descriptor) first,
\* before any enable attempt; kernel_active is cleared whether or not the
\* disable call succeeded (it is true afterwards only through a new verified
\* enable attempt), and the operation succeeds also when the disable failed.
C16_DisableFirst ==
    [][(SetModeStep /\ KernelActive) =>
          LET c == calls'
          IN  /\ Len(c) >= 1
              /\ IsDisableCall(c[1])
              /\ \A i \in 1..Len(c) : IsEnableCall(c[i]) => i > 1
              /\ \A i \in 2..Len(c) : ~IsDisableCall(c[i])
              /\ result'.ok
              /\ ~(EnableAttempted(c) /\ EnableVerified(c)) =>
                    ~is_kernel_rs485_active(platform, wrapper')
       ]_vars

\* C16 witness: the disable call failed, a new enable attempt followed it and
\* failed too; the operation succeeded with kernel_active cleared
C16_Witness ==
    /\ op.name \in {"configure_rs485", "configure_rs485_extended"}
    /\ Len(calls) = 2
    /\ IsDisableCall(calls[1]) /\ ~calls[1].ok
    /\ IsEnableCall(calls[2]) /\ ~calls[2].ok
    /\ result.ok
    /\ ~KernelActive

\* C17: a write while the mode is Automatic and kernel_active is true makes
\* the raw write of the data and then a flush, also when the raw write
\* failed, and nothing else: no RTS or DTR operation.
C17_KernelWriteThenFlush ==
    [][(WriteStep /\ wrapper.control_mode = "Auto" /\ KernelActive) =>
          LET c == calls'
          IN  /\ Len(c) = 2
              /\ c[1].fn = "write" /\ c[1].n = op'.len
              /\ c[2].fn = "flush"
              /\ \A i \in 1..Len(c) : ~IsPinCall(c[i])
       ]_vars

\* C17 witness: a write under kernel delegation whose raw write failed and
\* whose flush was still issued
C17_Witness ==
    /\ op.name = "write_rs485"
    /\ wrapper.control_mode = "Auto" /\ KernelActive
    /\ Len(calls) = 2
    /\ calls[1].fn = "write" /\ ~calls[1].ok
    /\ calls[2].fn = "flush"
    /\ ~result.ok

\* C18: every enable descriptor issued by set_extended_config is built from
\* the attributes passed to this call (they are stored before the attempt):
\* its polarity, receive-during-transmit and termination bits and its two
\* delays are those of the arguments, whatever was stored before.
C18_DescriptorFromThisCall ==
    [][(op = Idle /\ op'.name = "configure_rs485_extended") =>
          \A i \in 1..Len(calls') :
             IsEnableCall(calls'[i]) =>
                LET d == calls'[i].desc
                IN  /\ HasFlag(d.flags, SER_RS485_RTS_ON_SEND)
                          <=> op'.rts_active_high
                    /\ HasFlag(d.flags, SER_RS485_RTS_AFTER_SEND)
                          <=> ~op'.rts_active_high
                    /\ HasFlag(d.flags, SER_RS485_RX_DURING_TX)
                          <=> op'.rx_during_tx
                    /\ HasFlag(d.flags, SER_RS485_TERMINATE_BUS)
                          <=> op'.termination_enabled
                    /\ d.delay_rts_before_send = op'.delay_before \div 1000
                    /\ d.delay_rts_after_send = op'.delay_after \div 1000
       ]_vars

\* C18 witness: set_extended_config passed attributes that all differ from
\* the ones a new controller holds, and the enable descriptor carries them
C18_Witness ==
    /\ op.name = "configure_rs485_extended"
    /\ ~op.rts_active_high /\ op.rx_during_tx /\ op.termination_enabled
    /\ op.delay_before = 1500 /\ op.delay_after = 1500
    /\ Len(calls) >= 1
    /\ IsEnableCall(calls[1])
    /\ calls[1].desc =
          [flags |-> SER_RS485_ENABLED + SER_RS485_RTS_AFTER_SEND
                       + SER_RS485_RX_DURING_TX + SER_RS485_TERMINATE_BUS,
           delay_rts_before_send |-> 1, delay_rts_after_send |-> 1]

\* the i-th call of the step is the set ioctl of an enable attempt: every set
\* ioctl is one, except the disable call that opens set_mode under delegation
IsEnableDescriptorAt(i) ==
    /\ calls'[i].fn = "TIOCSRS485"
    /\ ~(SetModeStep /\ KernelActive /\ i = 1)

\* C19: the flags word of every enable descriptor has the enabled bit, has
\* the assert-on-send bit iff rts_active_high and the assert-after-send bit
\* iff not rts_active_high, has the receive-during-transmit bit iff
\* rx_during_tx and the bus-termination bit iff termination, and no other bit.
C19_EnableFlags ==
    [][OperationStep =>
          \A i \in 1..Len(calls') :
             IsEnableDescriptorAt(i) =>
                LET f == calls'[i].desc.flags
                IN  /\ HasFlag(f, SER_RS485_ENABLED)
                    /\ HasFlag(f, SER_RS485_RTS_ON_SEND)
                          <=> wrapper'.rts_active_high
                    /\ HasFlag(f, SER_RS485_RTS_AFTER_SEND)
                          <=> ~wrapper'.rts_active_high
                    /\ HasFlag(f, SER_RS485_RX_DURING_TX)
                          <=> wrapper'.rx_during_tx
                    /\ HasFlag(f, SER_RS485_TERMINATE_BUS)
                          <=> wrapper'.termination_enabled
                    /\ ~HasFlag(f, 8)
                    /\ f >= 0 /\ f < 2 * SER_RS485_TERMINATE_BUS
       ]_vars

\* C19 witness: an enable descriptor with active-low polarity and receive
\* during transmit, without termination: enabled + after-send + rx-during-tx
C19_Witness ==
    /\ platform = "linux"
    /\ op.name \in {"configure_rs485", "configure_rs485_extended",
                    "set_rs485_delays"}
    /\ ~wrapper.rts_active_high /\ wrapper.rx_during_tx
    /\ ~wrapper.termination_enabled
    /\ Len(calls) >= 1
    /\ calls[1].fn = "TIOCSRS485"
    /\ calls[1].desc.flags =
          SER_RS485_ENABLED + SER_RS485_RTS_AFTER_SEND + SER_RS485_RX_DURING_TX

\* the delays the step's operation stores: its arguments, or for set_mode
\* (which takes no delays) the ones stored before
StoredDelaysOfStep ==
    IF op'.name = "configure_rs485"
    THEN [before |-> wrapper.delay_before_send_micros,
          after |-> wrapper.delay_after_send_micros]
    ELSE [before |-> op'.delay_before, after |-> op'.delay_after]

\* ms is micros / 1000 truncated
TruncatedToMillis(ms, micros) ==
    /\ ms * 1000 <= micros
    /\ micros < (ms + 1) * 1000
    /\ micros < 1000 => ms = 0

\* C20: each delay of an enable descriptor is the stored microsecond delay
\* divided by 1000 and truncated (a stored delay below 1000 is issued as 0,
\* the issued value times 1000 never exceeds the stored value), and the
\* stored microsecond values are left as the operation stored them.
C20_DelaysTruncated ==
    [][OperationStep =>
          \A i \in 1..Len(calls') :
             IsEnableDescriptorAt(i) =>
                LET d == calls'[i].desc
                IN  /\ TruncatedToMillis(d.delay_rts_before_send,
                                         wrapper'.delay_before_send_micros)
                    /\ TruncatedToMillis(d.delay_rts_after_send,
                                         wrapper'.delay_after_send_micros)
                    /\ wrapper'.delay_before_send_micros
                          = StoredDelaysOfStep.before
                    /\ wrapper'.delay_after_send_micros
                          = StoredDelaysOfStep.after
       ]_vars

\* C20 witness: an enable descriptor issued with 750 us stored before send
\* (issued as 0 ms) and 1500 us stored after send (issued as 1 ms)
C20_Witness ==
    /\ platform = "linux"
    /\ op.name \in {"configure_rs485", "configure_rs485_extended",
                    "set_rs485_delays"}
    /\ wrapper.delay_before_send_micros = 750
    /\ wrapper.delay_after_send_micros = 1500
    /\ Len(calls) >= 1
    /\ calls[1].fn = "TIOCSRS485"
    /\ HasFlag(calls[1].desc.flags, SER_RS485_ENABLED)
    /\ calls[1].desc.delay_rts_before_send = 0
    /\ calls[1].desc.delay_rts_after_send = 1

\* a step that is one call of set-rs485-delays (valid handle) on the platform
\* variant without kernel support
SetDelaysStepOther ==
    OperationStep /\ op'.name = "set_rs485_delays" /\ platform = "other"

\* C13 as stated: set-rs485-delays with a valid handle on a platform without
\* kernel delegation support changes nothing and returns true.
C13_NoOpSuccess ==
    [][SetDelaysStepOther =>
          /\ wrapper' = wrapper /\ kernel' = kernel /\ calls' = <<>>
          /\ result' = Ok(1)
       ]_vars

\* C13 amended: set-rs485-delays with a valid handle on a platform without
\* kernel delegation support changes nothing, makes no transport or control
\* call, and returns false.
C13_NoOpReturnsFalse ==
    [][SetDelaysStepOther =>
          /\ wrapper' = wrapper /\ kernel' = kernel /\ calls' = <<>>
          /\ result' = Ok(0)
       ]_vars

\* C13 witness: set-rs485-delays with delays other than the defaults has
\* returned on the platform without kernel support, in Automatic mode
C13_Witness ==
    /\ platform = "other"
    /\ op.name = "set_rs485_delays"
    /\ op.delay_before > 0 /\ op.delay_after > 0
    /\ wrapper.control_mode = "Auto"
    /\ result.n = 0

----------------------------------------------------------------------------
(* Properties of the error context store and the exported functions *)

\* the exported functions that can fail, with the lines of lib.rs each spans
FnLines(fn) ==
    CASE fn = "open" -> 154..244
      [] fn = "write" -> 262..294
      [] fn = "read" -> 298..335
      [] fn = "bytesAvailable" -> 339..358
      [] fn = "flush" -> 362..382
      [] fn = "listPorts" -> 458..489
      [] fn = "setTimeout" -> 493..516
      [] fn = "clearInput" -> 520..540
      [] fn = "clearOutput" -> 544..564
      [] fn = "clearAll" -> 568..588
      [] fn = "setRTS" -> 595..616
      [] fn = "setDTR" -> 622..643
      [] fn = "setRs485Delays" -> 676..700
      [] fn = "openWithRs485Config" -> 713..833
      [] fn = "setRs485Config" -> 845..891
      [] OTHER -> {}

\* the cell holds a context recorded by fn: a non-empty message and a
\* location inside fn
RecordedBy(fn, cell) ==
    /\ cell # None
    /\ cell[1].message # ""
    /\ cell[1].line \in FnLines(fn)

\* the last call was of a function other than getLastError / clearLastError
\* and returned its failure value
FailedCall ==
    jni.failed /\ jni.fn \notin {"idle", "getLastError", "clearLastError"}

\* what getLastError returns to thread t in this state
WouldRead(t) == Java_getLastError(last_error[LAST_ERROR(t)], TRUE)

\* C11: the error context store of a thread holds at most one record; after
\* a failing operation get-last-error returns a non-empty message; after
\* clear-last-error it returns absent; after two failing operations in a row
\* the store holds the second operation's message and location only.
C11_OneRecordLastFailure ==
    /\ \A t \in Threads : Len(last_error[t]) <= 1
    /\ FailedCall =>
          /\ WouldRead(jni.thread) # None
          /\ WouldRead(jni.thread)[1] # ""
    /\ jni.fn = "clearLastError" => WouldRead(jni.thread) = None
    /\ (FailedCall /\ jni.before # None) =>
          /\ RecordedBy(jni.fn, last_error[LAST_ERROR(jni.thread)])
          /\ WouldRead(jni.thread)
               = get_last_error_string(last_error[LAST_ERROR(jni.thread)])

\* C11 witness: two failing operations in a row on one thread, the second
\* being set-rs485-config with a null handle; the store still holds what
\* the first one recorded
C11_Witness ==
    /\ jni.fn = "setRs485Config" /\ jni.null_handle /\ jni.failed
    /\ jni.before # None
    /\ last_error[LAST_ERROR(jni.thread)] = jni.before
    /\ ~RecordedBy(jni.fn, jni.before)

\* C12: every exported function that returns its failure value (0, -1 or
\* false) has recorded an error context in the same call, also
\* set-rs485-config, set-rs485-delays and bytes-available with a null handle.
C12_FailureRecordsContext ==
    FailedCall => RecordedBy(jni.fn, last_error[LAST_ERROR(jni.thread)])

\* C12 witness: bytes-available with a null handle returned 0 on a thread
\* whose store is empty, so get-last-error returns absent
C12_Witness ==
    /\ jni.fn = "bytesAvailable" /\ jni.null_handle
    /\ jni.failed /\ jni.ret = 0
    /\ WouldRead(jni.thread) = None

\* C14: a call made by one thread (whether it records a context, clears the
\* store or does neither) leaves the store of every other thread as it was,
\* and get-last-error returns to a thread the record of its own store.
C14_PerThreadStore ==
    [][(jni = JniIdle /\ jni' # JniIdle) =>
          /\ \A u \in Threads \ {jni'.thread} : last_error'[u] = last_error[u]
          /\ jni'.fn = "getLastError" =>
                jni'.str \in {None, get_last_error_string(last_error[jni'.thread])}
          /\ jni'.fn = "clearLastError" => last_error'[jni'.thread] = None
          /\ (jni'.failed /\ last_error' # last_error) =>
                RecordedBy(jni'.fn, last_error'[jni'.thread])
       ]_vars

\* C14 witness: both threads hold a record, the records differ, and t1 reads
\* its own
C14_Witness ==
    /\ jni.fn = "getLastError" /\ jni.thread = "t1"
    /\ last_error["t1"] # None /\ last_error["t2"] # None
    /\ last_error["t1"] # last_error["t2"]
    /\ jni.str = get_last_error_string(last_error["t1"])

----------------------------------------------------------------------------
(* Properties of the controller, continued *)

\* a step that is one call of set-rs485-delays (valid handle) on the platform
\* variant with kernel support
SetDelaysStepLinux ==
    OperationStep /\ op'.name = "set_rs485_delays" /\ platform = "linux"

\* C21 as stated: set-rs485-delays on a controller in Automatic mode with pin
\* RTS whose kernel delegation is not active attempts the kernel enable
\* again, as set_mode(Automatic, RTS) would.
C21_DelaysRerunAdoption ==
    [][(/\ SetDelaysStepLinux
        /\ wrapper.control_mode = "Auto" /\ wrapper.control_pin = "RTS"
        /\ ~KernelActive) => EnableAttempted(calls')
       ]_vars

\* C21 amended: set-rs485-delays stores the two delays and re-issues the
\* kernel enable configuration only if kernel delegation is active when it
\* is called; when delegation is not active (also in Automatic mode with pin
\* RTS after a fallback) it makes no kernel call and kernel_active stays
\* false.
C21_ReissueOnlyWhenActive ==
    [][SetDelaysStepLinux =>
          /\ wrapper'.delay_before_send_micros = op'.delay_before
          /\ wrapper'.delay_after_send_micros = op'.delay_after
          /\ KernelActive =>
                (Len(calls') >= 1 /\ IsEnableDescriptorAt(1))
          /\ ~KernelActive =>
                (calls' = <<>> /\ ~is_kernel_rs485_active(platform, wrapper'))
       ]_vars

\* C21 witness: set-rs485-delays has returned on a controller in Automatic
\* mode with pin RTS whose delegation is not active, having stored new delays
\* and made no kernel call
C21_Witness ==
    /\ platform = "linux"
    /\ op.name = "set_rs485_delays"
    /\ wrapper.control_mode = "Auto" /\ wrapper.control_pin = "RTS"
    /\ ~KernelActive
    /\ wrapper.delay_before_send_micros = 1500
    /\ calls = <<>>

\* C25: in every reachable state where kernel_active is false the driver's
\* RS-485 descriptor does not have the enabled bit set (so no manual-toggle
\* write happens while the driver also switches the line).
C25_InactiveMeansDriverOff ==
    (platform = "linux" /\ ~KernelActive) => ~kernel

\* C25 witness: a complete manual-toggle write made with kernel_active false
\* while the driver has RS-485 enabled
C25_Witness ==
    /\ platform = "linux"
    /\ op.name = "write_rs485"
    /\ ~KernelActive
    /\ kernel
    /\ ToggleSequenceOn(calls, wrapper.control_pin)

\* C26: in every reachable state where kernel_active is true the driver's
\* RS-485 descriptor has the enabled bit set, also after a failed re-issue by
\* set-rs485-delays.
C26_ActiveMeansDriverOn ==
    KernelActive => kernel

\* C26 witness: a write that skipped manual toggling (raw write and flush
\* only) while the driver does not have RS-485 enabled
C26_Witness ==
    /\ op.name = "write_rs485"
    /\ KernelActive
    /\ ~kernel
    /\ Len(calls) = 2 /\ calls[1].fn = "write" /\ calls[2].fn = "flush"

\* the write of the step takes the path that toggles the pin itself (on the
\* platform without kernel support: every mode but Disabled)
ManualToggleWriteStep ==
    WriteStep /\ wrapper.control_mode # "None"
              /\ ~(wrapper.control_mode = "Auto" /\ KernelActive)

\* C27: in the manual-toggle write path, when the first pin call (the
\* assertion of the selected pin) fails, write returns that failure and makes
\* no other call: no raw write, no flush, no de-assertion; mode, pin,
\* kernel_active and the timing attributes are unchanged.
C27_AssertFailureReturnsAtOnce ==
    [][(ManualToggleWriteStep /\ Len(calls') >= 1 /\ ~calls'[1].ok) =>
          /\ Len(calls') = 1
          /\ calls'[1].fn = PinFn(wrapper.control_pin)
          /\ result' = Err("assert")
          /\ wrapper' = wrapper
          /\ kernel' = kernel
       ]_vars

\* C27 witness: a write in Manual mode on DTR, with delays stored, whose
\* assertion failed
C27_Witness ==
    /\ platform = "linux"
    /\ op.name = "write_rs485" /\ op.len > 0
    /\ wrapper.control_mode = "Manual" /\ wrapper.control_pin = "DTR"
    /\ wrapper.delay_before_send_micros > 0
    /\ ToggleRefusedOn(calls, "DTR")
    /\ result = Err("assert")

\* C28: write never reports a flush failure: in the manual-toggle path, when
\* assertion, raw write and de-assertion succeeded, write returns the raw
\* write's count whether or not the flush failed; in the kernel-delegated
\* path write returns the raw write's result whether or not the flush failed.
C28_FlushFailureNotReported ==
    op.name = "write_rs485" =>
        /\ (/\ Len(calls) = 4
            /\ calls[1].ok /\ calls[2].ok /\ calls[4].ok) =>
               (result.ok /\ result.n \in 0..op.len)
        /\ (Len(calls) = 2 /\ calls[2].fn = "flush") =>
               /\ result.ok = calls[1].ok
               /\ result.ok => result.n \in 0..op.len
        /\ result.err # "flush"

\* C28 witness: a manual-toggle write whose flush failed and which returned
\* the count of the raw write
C28_Witness ==
    /\ op.name = "write_rs485" /\ op.len = 2
    /\ Len(calls) = 4
    /\ calls[1].ok /\ calls[2].ok /\ calls[4].ok
    /\ calls[3].fn = "flush" /\ ~calls[3].ok
    /\ result = Ok(2)

\* the stored extended attributes of a PortWrapper: all five on the platform
\* with kernel support, the polarity on the other
ExtendedAttributes(w) ==
    IF platform = "linux"
    THEN <<w.rts_active_high, w.rx_during_tx, w.termination_enabled,
           w.delay_before_send_micros, w.delay_after_send_micros>>
    ELSE <<w.rts_active_high>>

\* C30: set_mode and write leave the stored extended attributes unchanged,
\* and write leaves mode, pin and kernel_active unchanged, whatever the
\* outcome of the transport and kernel calls.
C30_FrameOfSetModeAndWrite ==
    [][/\ (OperationStep /\ op'.name \in {"configure_rs485", "write_rs485"}) =>
             ExtendedAttributes(wrapper') = ExtendedAttributes(wrapper)
       /\ WriteStep =>
             /\ wrapper'.control_mode = wrapper.control_mode
             /\ wrapper'.control_pin = wrapper.control_pin
             /\ is_kernel_rs485_active(platform, wrapper') = KernelActive
       ]_vars

\* C30 witness: set_mode has run its enable attempt and failed, on a
\* controller whose five attributes all differ from those of a new one
C30_Witness ==
    /\ platform = "linux"
    /\ op.name = "configure_rs485"
    /\ EnableAttempted(calls) /\ ~KernelActive
    /\ ExtendedAttributes(wrapper) = <<FALSE, TRUE, TRUE, 750, 1500>>

NullHandleReturn(fn) == IF fn \in {"write", "read"} THEN 0 - 1 ELSE 0

\* C24: an exported function that takes a handle, called with the handle 0,
\* returns its failure or default value without any call of the transport
\* (no write, read, flush, clear, line-state, timeout or ioctl call) and
\* leaves the PortWrapper, the driver and the handle Java holds as they were.
C24_NullHandleRejected ==
    [][(jni = JniIdle /\ jni' # JniIdle /\ jni'.null_handle) =>
          /\ calls' = <<>>
          /\ wrapper' = wrapper
          /\ kernel' = kernel
          /\ handle' = handle
          /\ jni'.ret = NullHandleReturn(jni'.fn)]_vars

\* C24 witness: set-rs485-config with enabled = true was called with the
\* handle 0 while a port in mode None is open, and nothing happened
C24_Witness ==
    /\ jni.fn = "setRs485Config" /\ jni.null_handle
    /\ handle = 1
    /\ jni.ret = 0 /\ calls = <<>>
    /\ wrapper.control_mode = "None"

\* the extended attributes a call supplies, as the PortWrapper of the
\* platform would hold them
SuppliedAttributes(a) ==
    IF platform = "linux"
    THEN <<a.rts_active_high, a.rx_during_tx, a.termination_enabled,
           a.delay_before, a.delay_after>>
    ELSE <<a.rts_active_high>>

\* a call of fn on a valid port has just returned success
Succeeded(fn) ==
    /\ jni.fn = fn /\ ~jni.failed /\ ~jni.null_handle /\ jni.ret = 1
    /\ handle = 1

\* C22: the extended attributes supplied by the caller are stored whichever
\* mode is requested: after open-extended, also with mode Disabled, and after
\* set-rs485-config, also with enabled = false, the stored polarity, flags
\* and delays are the supplied ones.
C22_AttributesStoredWhateverMode ==
    (Succeeded("openWithRs485Config") \/ Succeeded("setRs485Config")) =>
        ExtendedAttributes(wrapper) = SuppliedAttributes(jni.args)

\* C22 witness: open-extended with mode Disabled, active-low polarity, both
\* flags set and both delays 750 has returned a handle, and the PortWrapper
\* holds the defaults of new()
C22_Witness ==
    /\ Succeeded("openWithRs485Config")
    /\ control_mode_of(jni.args.rs485_mode) = "None"
    /\ ~jni.args.rts_active_high
    /\ jni.args.rx_during_tx /\ jni.args.termination_enabled
    /\ jni.args.delay_before = 750 /\ jni.args.delay_after = 750
    /\ wrapper = new(platform)
    /\ wrapper.rts_active_high
    /\ ExtendedAttributes(wrapper) # SuppliedAttributes(jni.args)

\* C29: set-rs485-config on a valid handle leaves the port in mode Auto when
\* enabled is true and in mode None when it is false, never in Manual,
\* whatever the mode was; on Linux with enabled = true and pin RTS it
\* attempts kernel delegation, and kernel_rs485_active is true afterwards
\* exactly when the attempt was verified.
C29_SetConfigNeverManual ==
    [][(jni = JniIdle /\ jni'.fn = "setRs485Config" /\ ~jni'.null_handle) =>
          /\ wrapper'.control_mode
               = IF jni'.args.enabled THEN "Auto" ELSE "None"
          /\ wrapper'.control_mode # "Manual"
          /\ wrapper'.control_pin = control_pin_of(jni'.args.rs485_pin)
          /\ platform = "linux" =>
                /\ EnableAttempted(calls')
                     <=> (jni'.args.enabled /\ wrapper'.control_pin = "RTS")
                /\ wrapper'.kernel_rs485_active <=> EnableVerified(calls')]_vars

\* C29 witness: a port opened in mode Manual was given set-rs485-config with
\* enabled = true and pin RTS; it is now in mode Auto with kernel delegation
\* active
C29_Witness ==
    /\ platform = "linux"
    /\ Succeeded("setRs485Config")
    /\ jni.mode_before = "Manual"
    /\ jni.args.enabled /\ jni.args.rs485_pin = 0
    /\ wrapper.control_mode = "Auto"
    /\ wrapper.kernel_rs485_active
    /\ kernel

====
